---------------------------- MODULE Spec2Model ----------------------------
(***************************************************************************)
(* A model of src/app.py: the Curiosity MAAS weather facade.               *)
(*                                                                         *)
(* The module-level CACHE dict, the wall clock read by time.time(), and    *)
(* one record of locals per worker thread of the server's thread pool      *)
(* (FastAPI runs the plain `def` handlers in a thread pool, so handler     *)
(* bodies interleave between the atomic dict operations).                  *)
(***************************************************************************)
EXTENDS Integers, Sequences, FiniteSets, TLC

\* ------------------------------------------------------------------------
\* Bounds of the model
\* ------------------------------------------------------------------------

\* How many requests the server accepts in a behaviour.
MaxCalls == 3

\* The worker threads of the pool that serve requests concurrently.
Workers == {"w1", "w2"}

\* The sol numbers clients ask for.
Sols == {5}

\* ------------------------------------------------------------------------
\* JSON / Python values
\* ------------------------------------------------------------------------

\* Python None, JSON null.
None == [ty |-> "null"]

\* A dict key that is not present (d.get(k) then answers None).
Missing == [ty |-> "missing"]

\* A str; s is its sequence of characters.
JStr(s) == [ty |-> "str", s |-> s]

\* A number num/den, den a power of ten, in lowest such terms.
JNum(num, den) == [ty |-> "num", num |-> num, den |-> den]

\* A bool.
JBool(b) == [ty |-> "bool", b |-> b]

\* A JSON array standing as a field value.
JList == [ty |-> "list"]

\* The keys _normalize_maas reads, and the "error" key weather_by_sol reads.
FieldNames ==
    {"error", "sol", "terrestrial_date", "season", "min_temp", "max_temp",
     "min_gts_temp", "max_gts_temp", "pressure", "pressure_string",
     "sunrise", "sunset", "local_uv_irradiance_index", "atmo_opacity"}

\* A JSON object holding exactly the keys of the record `given`.
JMap(given) ==
    [kind |-> "map",
     fields |-> [k \in FieldNames |->
                   IF k \in DOMAIN given THEN given[k] ELSE Missing]]

\* The empty JSON object {}.
EmptyMap == [kind |-> "map", fields |-> [k \in FieldNames |-> Missing]]

\* A JSON array of len items.
JArr(len) == [kind |-> "arr", len |-> len]

\* The JSON document null.
JNullDoc == [kind |-> "null"]

\* What requests.get + raise_for_status raises: a RequestException.
RequestException == [kind |-> "RequestException"]


\* ------------------------------------------------------------------------
\* Python truthiness and float()
\* ------------------------------------------------------------------------

\* bool(x) of a field value: None, "", 0 and False are falsy.
TruthyValue(x) ==
    CASE x.ty = "null" -> FALSE
      [] x.ty = "missing" -> FALSE
      [] x.ty = "str" -> Len(x.s) > 0
      [] x.ty = "num" -> x.num # 0
      [] x.ty = "bool" -> x.b
      [] OTHER -> TRUE

\* bool(data) of a fetched document: null, [] and {} are falsy.
TruthyDoc(d) ==
    CASE d.kind = "null" -> FALSE
      [] d.kind = "arr" -> d.len > 0
      [] d.kind = "map" -> \E k \in FieldNames : d.fields[k] # Missing
      [] OTHER -> TRUE

DigitChars == {"0", "1", "2", "3", "4", "5", "6", "7", "8", "9"}

DigitValue(c) ==
    CASE c = "0" -> 0 [] c = "1" -> 1 [] c = "2" -> 2 [] c = "3" -> 3
      [] c = "4" -> 4 [] c = "5" -> 5 [] c = "6" -> 6 [] c = "7" -> 7
      [] c = "8" -> 8 [] c = "9" -> 9

\* str.strip(): float() ignores leading and trailing blanks.
RECURSIVE StripLeft(_)
StripLeft(s) ==
    IF Len(s) > 0 /\ Head(s) = " " THEN StripLeft(Tail(s)) ELSE s

RECURSIVE StripRight(_)
StripRight(s) ==
    IF Len(s) > 0 /\ s[Len(s)] = " "
    THEN StripRight(SubSeq(s, 1, Len(s) - 1))
    ELSE s

\* The integer a sequence of digits writes.
RECURSIVE DigitsToInt(_)
DigitsToInt(s) ==
    IF Len(s) = 0 THEN 0
    ELSE 10 * DigitsToInt(SubSeq(s, 1, Len(s) - 1)) + DigitValue(s[Len(s)])

RECURSIVE Pow10(_)
Pow10(n) == IF n = 0 THEN 1 ELSE 10 * Pow10(n - 1)

\* num/den with the trailing zeros of the fraction dropped: 7.50 is 7.5.
RECURSIVE Reduce(_, _)
Reduce(num, den) ==
    IF den > 1 /\ num % 10 = 0 THEN Reduce(num \div 10, den \div 10)
    ELSE JNum(num, den)

\* float(s) of a str, for the decimal literals [blanks][sign]digits[.digits]
\* (and .digits, digits.); None stands for the ValueError float() raises.
ParseFloat(s) ==
    LET t == StripRight(StripLeft(s))
        signed == Len(t) > 0 /\ t[1] \in {"-", "+"}
        sign == IF signed /\ t[1] = "-" THEN -1 ELSE 1
        body == IF signed THEN Tail(t) ELSE t
        dots == {i \in 1..Len(body) : body[i] = "."}
        dot == IF dots = {} THEN Len(body) + 1
               ELSE CHOOSE i \in dots : \A j \in dots : i <= j
        ip == SubSeq(body, 1, dot - 1)
        fp == SubSeq(body, dot + 1, Len(body))
        ok == /\ Cardinality(dots) <= 1
              /\ Len(ip) + Len(fp) >= 1
              /\ \A i \in 1..Len(ip) : ip[i] \in DigitChars
              /\ \A i \in 1..Len(fp) : fp[i] \in DigitChars
    IN IF ok
       THEN Reduce(sign * DigitsToInt(ip \o fp), Pow10(Len(fp)))
       ELSE None

\* to_float(x): float(x), or None on any exception.
to_float(x) ==
    CASE x.ty = "num" -> Reduce(x.num, x.den)
      [] x.ty = "bool" -> JNum(IF x.b THEN 1 ELSE 0, 1)
      [] x.ty = "str" -> ParseFloat(x.s)
      [] OTHER -> None

\* d.get(k) on a dict: the value, or None when the key is missing.
DictGet(d, k) == IF d.fields[k] = Missing THEN None ELSE d.fields[k]

\* "curiosity_rems_maas"
SourceTag ==
    JStr(<<"c", "u", "r", "i", "o", "s", "i", "t", "y", "_",
           "r", "e", "m", "s", "_", "m", "a", "a", "s">>)

\* _normalize_maas(d) calls d.get: a document that is no dict has none,
\* and the call raises AttributeError.
NormalizeRaises(d) == d.kind # "map"

\* _normalize_maas(d) for a dict d.
_normalize_maas(d) ==
    [source |-> SourceTag,
     sol |-> DictGet(d, "sol"),
     earth_date |-> DictGet(d, "terrestrial_date"),
     season |-> DictGet(d, "season"),
     temperature_c |->
        [min |-> to_float(DictGet(d, "min_temp")),
         max |-> to_float(DictGet(d, "max_temp")),
         min_gts |-> to_float(DictGet(d, "min_gts_temp")),
         max_gts |-> to_float(DictGet(d, "max_gts_temp"))],
     pressure_pa |-> to_float(DictGet(d, "pressure")),
     pressure_qual |-> DictGet(d, "pressure_string"),
     sunrise_local |-> DictGet(d, "sunrise"),
     sunset_local |-> DictGet(d, "sunset"),
     uv_index |-> DictGet(d, "local_uv_irradiance_index"),
     atmo_opacity |-> DictGet(d, "atmo_opacity")]


\* ------------------------------------------------------------------------
\* The upstream provider
\* ------------------------------------------------------------------------

\* {"sol": 4000, "season": "Month 6", "min_temp": "-70.5", "max_temp": "abc",
\*  "pressure": 850}
DocA ==
    JMap([sol |-> JNum(4000, 1),
          season |-> JStr(<<"M", "o", "n", "t", "h", " ", "6">>),
          min_temp |-> JStr(<<"-", "7", "0", ".", "5">>),
          max_temp |-> JStr(<<"a", "b", "c">>),
          pressure |-> JNum(850, 1)])

\* {"sol": 4001, "min_temp": -71, "max_temp": " -9.50 ", "pressure": null}
DocB ==
    JMap([sol |-> JNum(4001, 1),
          min_temp |-> JNum(-71, 1),
          max_temp |-> JStr(<<" ", "-", "9", ".", "5", "0", " ">>),
          pressure |-> None])

\* {"error": "no data"}
DocError == JMap([error |-> JStr(<<"n", "o", " ", "d", "a", "t", "a">>)])

\* The JSON documents r.json() can hand back: a mapping or an array,
\* provider-defined, empty or not.
Documents == {DocA, DocB, DocError, EmptyMap, JArr(0), JArr(1)}

\* What one call of requests.get ends in.
UpstreamResults == Documents \cup {RequestException}

\* ------------------------------------------------------------------------
\* State
\* ------------------------------------------------------------------------

TTL == 15 * 60

\* The instants at which the wall clock is read: the start, and the two
\* around one TTL after the start (entry ages 0, 1, TTL and TTL + 1 occur).
Instants == {0, TTL, TTL + 1}

VARIABLES
    CACHE,    \* the module-level dict: key -> {"t": ..., "v": ...}, None = no entry
    now,      \* what time.time() answers
    calls,    \* how many requests the server has accepted
    pc,       \* where each worker's handler stands
    req,      \* the request a worker serves
    key,      \* the handler's local `key`
    path,     \* the path handed to _fetch_maas
    row,      \* _get_cached's local `row`
    tchk,     \* the time.time() _get_cached read at its expiry check
    cached,   \* the handler's local `cached`
    data,     \* the handler's local `data` (or the exception _fetch_maas met)
    out,      \* the handler's local `out`
    stored,   \* the row this invocation's _set_cached wrote
    nfetch,   \* how often this invocation called requests.get
    resp,     \* the response of the invocation
    prev      \* the sequential client's previous call

vars == <<CACHE, now, calls, pc, req, key, path, row, tchk, cached, data, out,
          stored, nfetch, resp, prev>>

\* f"sol:{sol}" and "latest"
LatestKey == <<"latest">>
SolKey(sol) == <<"sol:", sol>>
Keys == {LatestKey} \cup {SolKey(s) : s \in Sols}

\* "/" and f"/{sol}"
RootPath == <<"/">>
SolPath(sol) == <<"/", sol>>

\* The sol values GET /maas?sol= is asked with; Query(0, ge=0) admits sol >= 0.
MaasSols == {0} \cup {s \in Sols : s >= 0}

Request(ep, sol) == [ep |-> ep, sol |-> sol]
NoRequest == [ep |-> "none", sol |-> 0]

\* A response: an HTTP status and the body (None for an error body).
Response(status, body) == [status |-> status, body |-> body]
NoResponse == [status |-> 0, body |-> None]

\* {"ok": True}
OkBody == [ok |-> TRUE]

NoPrev == [req |-> NoRequest, resp |-> NoResponse, ent |-> None, nfetch |-> 0]

\* The cache row an invocation served from, or wrote.
EntryUsed(p) == IF cached[p] # None THEN row[p] ELSE stored[p]

Init ==
    /\ CACHE = [k \in Keys |-> None]
    /\ now = 0
    /\ calls = 0
    /\ pc = [p \in Workers |-> "idle"]
    /\ req = [p \in Workers |-> NoRequest]
    /\ key = [p \in Workers |-> <<>>]
    /\ path = [p \in Workers |-> <<>>]
    /\ row = [p \in Workers |-> None]
    /\ tchk = [p \in Workers |-> 0]
    /\ cached = [p \in Workers |-> None]
    /\ data = [p \in Workers |-> None]
    /\ out = [p \in Workers |-> None]
    /\ stored = [p \in Workers |-> None]
    /\ nfetch = [p \in Workers |-> 0]
    /\ resp = [p \in Workers |-> NoResponse]
    /\ prev = NoPrev


\* ------------------------------------------------------------------------
\* The handlers' decisions
\* ------------------------------------------------------------------------

\* HTTPException(status_code=..., detail=...)
HTTPException(status, detail) == Response(status, [detail |-> detail])

\* An exception no handler catches: the server answers 500.
Unhandled(exc) == Response(500, [exception |-> exc])

\* Expired with the comparison off by one: an entry of age TTL is dropped.
ExpiredAtTTL(r, t) == t - r.t >= TTL

\* _get_cached, line 28: time.time() - row["t"] > TTL
Expired(r, t) == t - r.t > TTL

\* The handlers' `if cached:` on what _get_cached returned.
Hit(c) == c # None

\* The path with /maas always asking for the latest record.
PathOfMaasLatest(r) ==
    CASE r.ep = "latest" -> RootPath
      [] r.ep = "by_sol" -> SolPath(r.sol)
      [] r.ep = "maas" -> RootPath

\* The path a request fetches.
PathOf(r) ==
    CASE r.ep = "latest" -> RootPath
      [] r.ep = "by_sol" -> SolPath(r.sol)
      [] r.ep = "maas" -> IF r.sol = 0 THEN RootPath ELSE SolPath(r.sol)

\* The not-found test without its error-indicator half.
NoDataOnlyEmpty(d) == ~TruthyDoc(d)

\* weather_by_sol, line 100:
\* not data or (isinstance(data, dict) and data.get("error"))
NoData(d) ==
    \/ ~TruthyDoc(d)
    \/ (d.kind = "map" /\ TruthyValue(DictGet(d, "error")))

\* weather_latest after _fetch_maas returned d (lines 89-90): the value to
\* cache, or the response that ends the request.
LatestAfterFetch(d) ==
    IF NormalizeRaises(d)
    THEN [out |-> None, resp |-> Unhandled("AttributeError")]
    ELSE [out |-> _normalize_maas(d), resp |-> NoResponse]

\* weather_by_sol that caches and returns the document as fetched.
BySolAfterFetchRaw(d) ==
    IF NoData(d)
    THEN [out |-> None, resp |-> HTTPException(404, "No data for sol")]
    ELSE [out |-> d, resp |-> NoResponse]

\* weather_by_sol after _fetch_maas returned d (lines 100-103).
BySolAfterFetch(d) ==
    IF NoData(d)
    THEN [out |-> None, resp |-> HTTPException(404, "No data for sol")]
    ELSE IF NormalizeRaises(d)
    THEN [out |-> None, resp |-> Unhandled("AttributeError")]
    ELSE [out |-> _normalize_maas(d), resp |-> NoResponse]

\* maas with the not-found test of weather_by_sol.
MaasAfterFetchNotFound(d) ==
    IF NoData(d)
    THEN [out |-> None, resp |-> HTTPException(404, "No data for sol")]
    ELSE [out |-> None, resp |-> Response(200, d)]

\* maas after _fetch_maas returned d (lines 117-119).
MaasAfterFetch(d) ==
    IF ~TruthyDoc(d)
    THEN [out |-> None, resp |-> HTTPException(502, "Empty MAAS response")]
    ELSE [out |-> None, resp |-> Response(200, d)]

AfterFetch(r, d) ==
    CASE r.ep = "latest" -> LatestAfterFetch(d)
      [] r.ep = "by_sol" -> BySolAfterFetch(d)
      [] r.ep = "maas" -> MaasAfterFetch(d)

\* ------------------------------------------------------------------------
\* Actions
\* ------------------------------------------------------------------------

Idle(p) == pc[p] \in {"idle", "done"}

\* A worker takes the next request: its locals are fresh.
Accept(p, r) ==
    /\ Idle(p)
    /\ calls < MaxCalls
    /\ calls' = calls + 1
    /\ req' = [req EXCEPT ![p] = r]
    /\ row' = [row EXCEPT ![p] = None]
    /\ tchk' = [tchk EXCEPT ![p] = 0]
    /\ cached' = [cached EXCEPT ![p] = None]
    /\ data' = [data EXCEPT ![p] = None]
    /\ out' = [out EXCEPT ![p] = None]
    /\ stored' = [stored EXCEPT ![p] = None]

\* The clock advances to a later instant t.
Tick(t) ==
    /\ t > now
    /\ now' = t
    /\ UNCHANGED <<CACHE, calls, pc, req, key, path, row, tchk, cached, data, out,
                   stored, nfetch, resp>>

\* GET /ping
ping(p) ==
    /\ Accept(p, Request("ping", 0))
    /\ key' = [key EXCEPT ![p] = <<>>]
    /\ path' = [path EXCEPT ![p] = <<>>]
    /\ nfetch' = [nfetch EXCEPT ![p] = 0]
    /\ resp' = [resp EXCEPT ![p] = Response(200, OkBody)]
    /\ pc' = [pc EXCEPT ![p] = "done"]
    /\ UNCHANGED <<CACHE, now>>

\* GET /healthz that empties the cache.
healthzFlush(p) ==
    /\ Accept(p, Request("healthz", 0))
    /\ key' = [key EXCEPT ![p] = <<>>]
    /\ path' = [path EXCEPT ![p] = <<>>]
    /\ nfetch' = [nfetch EXCEPT ![p] = 0]
    /\ resp' = [resp EXCEPT ![p] = Response(200, OkBody)]
    /\ pc' = [pc EXCEPT ![p] = "done"]
    /\ CACHE' = [k \in Keys |-> None]
    /\ UNCHANGED now

\* GET /healthz
healthz(p) ==
    /\ Accept(p, Request("healthz", 0))
    /\ key' = [key EXCEPT ![p] = <<>>]
    /\ path' = [path EXCEPT ![p] = <<>>]
    /\ nfetch' = [nfetch EXCEPT ![p] = 0]
    /\ resp' = [resp EXCEPT ![p] = Response(200, OkBody)]
    /\ pc' = [pc EXCEPT ![p] = "done"]
    /\ UNCHANGED <<CACHE, now>>

\* GET /weather/latest, line 84: key = "latest", then _get_cached(key).
weather_latest(p) ==
    /\ Accept(p, Request("latest", 0))
    /\ key' = [key EXCEPT ![p] = LatestKey]
    /\ path' = [path EXCEPT ![p] = <<>>]
    /\ nfetch' = [nfetch EXCEPT ![p] = 0]
    /\ resp' = [resp EXCEPT ![p] = NoResponse]
    /\ pc' = [pc EXCEPT ![p] = "get_read"]
    /\ UNCHANGED <<CACHE, now>>

\* GET /weather/{sol}, line 95: key = f"sol:{sol}", then _get_cached(key).
weather_by_sol(p, sol) ==
    /\ Accept(p, Request("by_sol", sol))
    /\ key' = [key EXCEPT ![p] = SolKey(sol)]
    /\ path' = [path EXCEPT ![p] = <<>>]
    /\ nfetch' = [nfetch EXCEPT ![p] = 0]
    /\ resp' = [resp EXCEPT ![p] = NoResponse]
    /\ pc' = [pc EXCEPT ![p] = "get_read"]
    /\ UNCHANGED <<CACHE, now>>

\* GET /maas?sol= as a cached endpoint: a key, then _get_cached(key).
maasCached(p, sol) ==
    /\ Accept(p, Request("maas", sol))
    /\ key' = [key EXCEPT ![p] = IF sol = 0 THEN LatestKey ELSE SolKey(sol)]
    /\ path' = [path EXCEPT ![p] = <<>>]
    /\ nfetch' = [nfetch EXCEPT ![p] = 0]
    /\ resp' = [resp EXCEPT ![p] = NoResponse]
    /\ pc' = [pc EXCEPT ![p] = "get_read"]
    /\ UNCHANGED <<CACHE, now>>

\* GET /maas?sol=, lines 115-116: the path, then _fetch_maas(path) is called.
maas(p, sol) ==
    /\ Accept(p, Request("maas", sol))
    /\ key' = [key EXCEPT ![p] = <<>>]
    /\ path' = [path EXCEPT ![p] = PathOf(Request("maas", sol))]
    /\ nfetch' = [nfetch EXCEPT ![p] = 1]
    /\ resp' = [resp EXCEPT ![p] = NoResponse]
    /\ pc' = [pc EXCEPT ![p] = "fetch"]
    /\ UNCHANGED <<CACHE, now>>

\* What a handler does with _get_cached's answer c: return it on a hit,
\* call _fetch_maas on a miss.
Lookup(p, c) ==
    /\ cached' = [cached EXCEPT ![p] = c]
    /\ IF Hit(c)
       THEN /\ resp' = [resp EXCEPT ![p] = Response(200, c)]
            /\ pc' = [pc EXCEPT ![p] = "done"]
            /\ UNCHANGED <<path, nfetch>>
       ELSE /\ path' = [path EXCEPT ![p] = PathOf(req[p])]
            /\ nfetch' = [nfetch EXCEPT ![p] = @ + 1]
            /\ pc' = [pc EXCEPT ![p] = "fetch"]
            /\ UNCHANGED resp

\* _get_cached behind a lock that a request waiting for upstream holds.
GetCachedReadLocked(p) ==
    /\ pc[p] = "get_read"
    /\ \A q \in Workers \ {p} : pc[q] # "fetch"
    /\ row' = [row EXCEPT ![p] = CACHE[key[p]]]
    /\ IF CACHE[key[p]] = None
       THEN Lookup(p, None)
       ELSE /\ pc' = [pc EXCEPT ![p] = "get_check"]
            /\ UNCHANGED <<cached, resp, path, nfetch>>
    /\ UNCHANGED <<CACHE, now, calls, req, key, tchk, data, out, stored>>

\* _get_cached, lines 25-27: row = CACHE.get(key); no row, no value.
GetCachedRead(p) ==
    /\ pc[p] = "get_read"
    /\ row' = [row EXCEPT ![p] = CACHE[key[p]]]
    /\ IF CACHE[key[p]] = None
       THEN Lookup(p, None)
       ELSE /\ pc' = [pc EXCEPT ![p] = "get_check"]
            /\ UNCHANGED <<cached, resp, path, nfetch>>
    /\ UNCHANGED <<CACHE, now, calls, req, key, tchk, data, out, stored>>

\* _get_cached, lines 28 and 31: the clock is read and the row's age judged.
GetCachedCheck(p) ==
    /\ pc[p] = "get_check"
    /\ tchk' = [tchk EXCEPT ![p] = now]
    /\ IF Expired(row[p], now)
       THEN /\ pc' = [pc EXCEPT ![p] = "get_pop"]
            /\ UNCHANGED <<cached, resp, path, nfetch>>
       ELSE Lookup(p, row[p].v)
    /\ UNCHANGED <<CACHE, now, calls, req, key, row, data, out, stored>>

\* _get_cached that clears the whole dict when it finds an expired row.
GetCachedPopAll(p) ==
    /\ pc[p] = "get_pop"
    /\ CACHE' = [k \in Keys |-> None]
    /\ Lookup(p, None)
    /\ UNCHANGED <<now, calls, req, key, row, tchk, data, out, stored>>

\* _get_cached, lines 29-30: CACHE.pop(key, None); return None.
GetCachedPop(p) ==
    /\ pc[p] = "get_pop"
    /\ CACHE' = [CACHE EXCEPT ![key[p]] = None]
    /\ Lookup(p, None)
    /\ UNCHANGED <<now, calls, req, key, row, tchk, data, out, stored>>

\* _fetch_maas with a stale fallback: when the fetch fails and the lookup had
\* read a row, the handler answers that row's value.
FetchMaasReturnStale(p, r) ==
    /\ pc[p] = "fetch"
    /\ data' = [data EXCEPT ![p] = r]
    /\ IF r = RequestException
       THEN /\ resp' = [resp EXCEPT ![p] =
                          IF row[p] # None
                          THEN Response(200, row[p].v)
                          ELSE HTTPException(502, "Upstream MAAS error")]
            /\ pc' = [pc EXCEPT ![p] = "done"]
            /\ UNCHANGED out
       ELSE LET a == AfterFetch(req[p], r)
            IN /\ out' = [out EXCEPT ![p] = a.out]
               /\ resp' = [resp EXCEPT ![p] = a.resp]
               /\ pc' = [pc EXCEPT ![p] =
                           IF a.resp = NoResponse THEN "set" ELSE "done"]
    /\ UNCHANGED <<CACHE, now, calls, req, key, path, row, tchk, cached,
                   stored, nfetch>>

\* _fetch_maas that tries once more when requests.get raises.
FetchMaasReturnRetry(p, r) ==
    /\ pc[p] = "fetch"
    /\ data' = [data EXCEPT ![p] = r]
    /\ IF r = RequestException /\ nfetch[p] < 2
       THEN /\ nfetch' = [nfetch EXCEPT ![p] = @ + 1]
            /\ UNCHANGED <<pc, resp, out>>
       ELSE /\ UNCHANGED nfetch
            /\ IF r = RequestException
               THEN /\ resp' = [resp EXCEPT ![p] =
                                  HTTPException(502, "Upstream MAAS error")]
                    /\ pc' = [pc EXCEPT ![p] = "done"]
                    /\ UNCHANGED out
               ELSE LET a == AfterFetch(req[p], r)
                    IN /\ out' = [out EXCEPT ![p] = a.out]
                       /\ resp' = [resp EXCEPT ![p] = a.resp]
                       /\ pc' = [pc EXCEPT ![p] =
                                   IF a.resp = NoResponse THEN "set" ELSE "done"]
    /\ UNCHANGED <<CACHE, now, calls, req, key, path, row, tchk, cached,
                   stored>>

\* _fetch_maas returns or raises (lines 39-43), and the handler runs on to
\* its _set_cached or to its response.
FetchMaasReturn(p, r) ==
    /\ pc[p] = "fetch"
    /\ data' = [data EXCEPT ![p] = r]
    /\ IF r = RequestException
       THEN /\ resp' = [resp EXCEPT ![p] =
                          HTTPException(502, "Upstream MAAS error")]
            /\ pc' = [pc EXCEPT ![p] = "done"]
            /\ UNCHANGED out
       ELSE LET a == AfterFetch(req[p], r)
            IN /\ out' = [out EXCEPT ![p] = a.out]
               /\ resp' = [resp EXCEPT ![p] = a.resp]
               /\ pc' = [pc EXCEPT ![p] =
                           IF a.resp = NoResponse THEN "set" ELSE "done"]
    /\ UNCHANGED <<CACHE, now, calls, req, key, path, row, tchk, cached,
                   stored, nfetch>>

\* _set_cached that builds the row and never puts it in CACHE.
SetCachedNoStore(p) ==
    /\ pc[p] = "set"
    /\ stored' = [stored EXCEPT ![p] = [t |-> now, v |-> out[p]]]
    /\ resp' = [resp EXCEPT ![p] = Response(200, out[p])]
    /\ pc' = [pc EXCEPT ![p] = "done"]
    /\ UNCHANGED <<CACHE, now, calls, req, key, path, row, tchk, cached, data,
                   out, nfetch>>

\* _set_cached that keeps the timestamp of the row the lookup read.
SetCachedOldTime(p) ==
    LET t == IF row[p] # None THEN row[p].t ELSE now
    IN /\ pc[p] = "set"
       /\ CACHE' = [CACHE EXCEPT ![key[p]] = [t |-> t, v |-> out[p]]]
       /\ stored' = [stored EXCEPT ![p] = [t |-> t, v |-> out[p]]]
       /\ resp' = [resp EXCEPT ![p] = Response(200, out[p])]
       /\ pc' = [pc EXCEPT ![p] = "done"]
       /\ UNCHANGED <<now, calls, req, key, path, row, tchk, cached, data,
                      out, nfetch>>

\* _set_cached as CACHE.setdefault: the first row under a key stays.
SetCachedIfAbsent(p) ==
    /\ pc[p] = "set"
    /\ CACHE' = IF CACHE[key[p]] = None
                THEN [CACHE EXCEPT ![key[p]] = [t |-> now, v |-> out[p]]]
                ELSE CACHE
    /\ stored' = [stored EXCEPT ![p] = [t |-> now, v |-> out[p]]]
    /\ resp' = [resp EXCEPT ![p] = Response(200, out[p])]
    /\ pc' = [pc EXCEPT ![p] = "done"]
    /\ UNCHANGED <<now, calls, req, key, path, row, tchk, cached, data, out,
                   nfetch>>

\* _set_cached, line 34: CACHE[key] = {"t": time.time(), "v": value}, and
\* the handler returns out.
SetCached(p) ==
    /\ pc[p] = "set"
    /\ CACHE' = [CACHE EXCEPT ![key[p]] = [t |-> now, v |-> out[p]]]
    /\ stored' = [stored EXCEPT ![p] = [t |-> now, v |-> out[p]]]
    /\ resp' = [resp EXCEPT ![p] = Response(200, out[p])]
    /\ pc' = [pc EXCEPT ![p] = "done"]
    /\ UNCHANGED <<now, calls, req, key, path, row, tchk, cached, data, out,
                   nfetch>>

\* The thread pool: any worker takes any step, and the clock runs.
Next ==
    \/ (\E t \in Instants : Tick(t)) /\ UNCHANGED prev
    \/ (\E p \in Workers : ping(p)) /\ UNCHANGED prev
    \/ (\E p \in Workers : healthz(p)) /\ UNCHANGED prev
    \/ (\E p \in Workers : weather_latest(p)) /\ UNCHANGED prev
    \/ (\E p \in Workers, sol \in Sols : weather_by_sol(p, sol))
          /\ UNCHANGED prev
    \/ (\E p \in Workers, sol \in MaasSols : maas(p, sol)) /\ UNCHANGED prev
    \/ (\E p \in Workers : GetCachedRead(p)) /\ UNCHANGED prev
    \/ (\E p \in Workers : GetCachedCheck(p)) /\ UNCHANGED prev
    \/ (\E p \in Workers : GetCachedPop(p)) /\ UNCHANGED prev
    \/ (\E p \in Workers, r \in UpstreamResults : FetchMaasReturn(p, r))
          /\ UNCHANGED prev
    \/ (\E p \in Workers : SetCached(p)) /\ UNCHANGED prev

\* Concurrent requests served by the thread pool.
Spec == Init /\ [][Next]_vars

\* One client that waits for each response before its next request.
Client == "w1"

\* The client notes the call it got answered when it makes the next one.
Observe(p) ==
    prev' = IF pc[p] = "done"
            THEN [req |-> req[p], resp |-> resp[p], ent |-> EntryUsed(p),
                  nfetch |-> nfetch[p]]
            ELSE prev

NextSeq ==
    \/ (\E t \in Instants : Tick(t)) /\ UNCHANGED prev
    \/ ping(Client) /\ Observe(Client)
    \/ healthz(Client) /\ Observe(Client)
    \/ weather_latest(Client) /\ Observe(Client)
    \/ (\E sol \in Sols : weather_by_sol(Client, sol)) /\ Observe(Client)
    \/ (\E sol \in MaasSols : maas(Client, sol)) /\ Observe(Client)
    \/ GetCachedRead(Client) /\ Observe(Client)
    \/ GetCachedCheck(Client) /\ Observe(Client)
    \/ GetCachedPop(Client) /\ Observe(Client)
    \/ (\E r \in UpstreamResults : FetchMaasReturn(Client, r))
          /\ Observe(Client)
    \/ SetCached(Client) /\ Observe(Client)

\* Requests made one after the other.
SpecSeq == Init /\ [][NextSeq]_vars


\* ------------------------------------------------------------------------
\* _normalize_maas on its own
\* ------------------------------------------------------------------------

\* The keys _normalize_maas hands to to_float.
NumericFields ==
    {"min_temp", "max_temp", "min_gts_temp", "max_gts_temp", "pressure"}

\* What a JSON object can hold under one key: nothing, null, "-70.5", "abc",
\* 850, true, a list.
NormValues ==
    {Missing, None, JStr(<<"-", "7", "0", ".", "5">>), JStr(<<"a", "b", "c">>),
     JNum(850, 1), JBool(TRUE), JList}

\* The dicts _normalize_maas is applied to: every choice of NormValues for
\* the numeric keys.
NormInputs ==
    {[kind |-> "map",
      fields |-> [k \in FieldNames |->
                    IF k \in NumericFields THEN f[k] ELSE Missing]] :
        f \in [NumericFields -> NormValues]}

\* A dict d is about to be passed to _normalize_maas.
InitNorm ==
    /\ CACHE = [k \in Keys |-> None]
    /\ now = 0
    /\ calls = 0
    /\ pc = [p \in Workers |-> IF p = Client THEN "normalize" ELSE "idle"]
    /\ req = [p \in Workers |-> NoRequest]
    /\ key = [p \in Workers |-> <<>>]
    /\ path = [p \in Workers |-> <<>>]
    /\ row = [p \in Workers |-> None]
    /\ tchk = [p \in Workers |-> 0]
    /\ cached = [p \in Workers |-> None]
    /\ \E d \in NormInputs : data = [p \in Workers |-> IF p = Client THEN d ELSE None]
    /\ out = [p \in Workers |-> None]
    /\ stored = [p \in Workers |-> None]
    /\ nfetch = [p \in Workers |-> 0]
    /\ resp = [p \in Workers |-> NoResponse]
    /\ prev = NoPrev

\* out = _normalize_maas(data)
Normalize(p) ==
    /\ pc[p] = "normalize"
    /\ out' = [out EXCEPT ![p] = _normalize_maas(data[p])]
    /\ pc' = [pc EXCEPT ![p] = "normalized"]
    /\ UNCHANGED <<CACHE, now, calls, req, key, path, row, tchk, cached, data,
                   stored, nfetch, resp, prev>>

NextNorm == Normalize(Client)

\* One call of _normalize_maas on a dict.
SpecNorm == InitNorm /\ [][NextNorm]_vars


\* ------------------------------------------------------------------------
\* Properties
\* ------------------------------------------------------------------------

Normalized(p) == req[p].ep \in {"latest", "by_sol"}

\* _get_cached has judged the row it read.
Judged(p) == Normalized(p) /\ pc[p] \in {"get_pop", "fetch", "set", "done"}

\* The age, at the expiry check, of the row _get_cached read.
AgeSeen(p) == tchk[p] - row[p].t

\* C1: _get_cached answers a value exactly when it read an entry for the key
\* and that entry's age, at the clock read of the expiry check, is at most
\* TTL; the value is the entry's, and it is what the handler responds with.
\* So no response is served from an entry older than TTL, and an entry of
\* age exactly TTL is served.
C1_CacheFreshness ==
    \A p \in Workers :
        Judged(p) =>
            /\ (cached[p] # None) <=> (row[p] # None /\ AgeSeen(p) <= TTL)
            /\ cached[p] # None =>
                   /\ cached[p] = row[p].v
                   /\ pc[p] = "done"
                   /\ resp[p] = Response(200, row[p].v)
                   /\ nfetch[p] = 0

\* A response served from an entry of age exactly TTL.
C1_Witness ==
    \E p \in Workers :
        /\ pc[p] = "done"
        /\ Normalized(p)
        /\ cached[p] # None
        /\ AgeSeen(p) = TTL
        /\ resp[p].body = row[p].v

\* The client's call follows a successful call of the same endpoint (and sol).
RepeatsSuccess ==
    /\ Normalized(Client)
    /\ prev.req = req[Client]
    /\ prev.resp.status = 200

\* C2: when a client's call of the latest or by-sol endpoint succeeded and
\* its next call is of the same endpoint (same sol), the second call reads
\* the very entry the first one stored or was served from; if its clock read
\* is at most TTL after that entry was stored, it responds exactly what the
\* first call responded, and upstream was called once over the two calls
\* when the first call missed (never when it hit).
C2_Idempotent ==
    (RepeatsSuccess /\ pc[Client] \in {"get_check", "get_pop", "fetch", "set", "done"}) =>
        /\ prev.ent # None
        /\ row[Client] = prev.ent
        /\ (Judged(Client) /\ tchk[Client] - prev.ent.t <= TTL) =>
               /\ pc[Client] = "done"
               /\ resp[Client] = prev.resp
               /\ nfetch[Client] = 0
               /\ prev.nfetch + nfetch[Client] <= 1

\* Two by-sol calls, the first a miss that fetched, the second answered the
\* same with no fetch, exactly TTL after the entry was stored.
C2_Witness ==
    /\ RepeatsSuccess
    /\ req[Client].ep = "by_sol"
    /\ pc[Client] = "done"
    /\ prev.nfetch = 1
    /\ nfetch[Client] = 0
    /\ resp[Client] = prev.resp
    /\ tchk[Client] - prev.ent.t = TTL

\* _get_cached read an entry and found it older than TTL.
ReadExpired(p) == Judged(p) /\ row[p] # None /\ AgeSeen(p) > TTL

\* C3: a call whose lookup reads an entry stored more than TTL before its
\* clock read is not answered from the cache and calls upstream exactly
\* once; when that fetch succeeds, its _set_cached leaves under the key the
\* newly normalized value with the time of that store as timestamp, later
\* than the old entry's, and the call responds the new value.
C3_TTLExpiry ==
    [][\A p \in Workers :
          /\ ReadExpired(p)' =>
                 /\ cached'[p] = None
                 /\ pc'[p] \in {"fetch", "set", "done"} => nfetch'[p] = 1
                 /\ (pc'[p] = "done" /\ resp'[p].status = 200) =>
                        /\ data'[p] \in Documents
                        /\ resp'[p].body = _normalize_maas(data'[p])
                        /\ stored'[p] # None
          /\ (ReadExpired(p) /\ pc[p] = "set" /\ pc'[p] = "done") =>
                 /\ CACHE'[key[p]] = [t |-> now, v |-> out[p]]
                 /\ stored'[p] = CACHE'[key[p]]
                 /\ now > row[p].t
                 /\ resp'[p] = Response(200, out[p])
      ]_vars

\* A call that found its entry TTL + 1 old, fetched once and left the new
\* value under the key with the current time.
C3_Witness ==
    \E p \in Workers :
        /\ ReadExpired(p)
        /\ AgeSeen(p) = TTL + 1
        /\ pc[p] = "done"
        /\ resp[p].status = 200
        /\ nfetch[p] = 1
        /\ CACHE[key[p]] = [t |-> now, v |-> resp[p].body]
        /\ resp[p].body # row[p].v
        /\ now > row[p].t

\* The upstream fetch of p's request failed.
FetchFailed(p) ==
    /\ req[p].ep \in {"latest", "by_sol", "maas"}
    /\ pc[p] = "done"
    /\ data[p] = RequestException

\* C4: a /weather/latest, /weather/{sol} or /maas request whose upstream
\* fetch fails ends with status 502; it has normalized nothing, its
\* _set_cached never ran, and its body is an error, not the value of the
\* (expired) row its lookup read.
C4_UpstreamFailure ==
    \A p \in Workers :
        FetchFailed(p) =>
            /\ resp[p].status = 502
            /\ DOMAIN resp[p].body = {"detail"}
            /\ cached[p] = None
            /\ out[p] = None
            /\ stored[p] = None
            /\ nfetch[p] = 1

\* A fetch that failed after the lookup dropped an expired entry.
C4_Witness ==
    \E p \in Workers :
        /\ FetchFailed(p)
        /\ req[p].ep = "latest"
        /\ ReadExpired(p)
        /\ resp[p].status = 502
        /\ CACHE[key[p]] = None

\* An empty document, or a mapping with an error indicator.
EmptyOrError(d) == d \in {EmptyMap, JArr(0), DocError}

\* C5: a /weather/{sol} request that misses the cache and is handed an empty
\* document or a mapping with an error indicator ends with status 404,
\* nothing normalized and nothing written under "sol:<sol>"; and the
\* client's next request for that sol misses and fetches again.
C5_BySolNotFound ==
    /\ \A p \in Workers :
          (req[p].ep = "by_sol" /\ pc[p] = "done" /\ EmptyOrError(data[p])) =>
              /\ resp[p].status = 404
              /\ out[p] = None
              /\ stored[p] = None
              /\ CACHE[key[p]] = None
    /\ (/\ req[Client].ep = "by_sol"
        /\ prev.req = req[Client]
        /\ prev.resp.status = 404
        /\ pc[Client] # "get_read") =>
           /\ row[Client] = None
           /\ cached[Client] = None
           /\ nfetch[Client] = 1

\* {"error": "no data"} answered with 404, and the next call for the sol
\* fetching again.
C5_Witness ==
    /\ req[Client].ep = "by_sol"
    /\ prev.req = req[Client]
    /\ prev.resp.status = 404
    /\ pc[Client] = "done"
    /\ data[Client] = DocError
    /\ resp[Client].status = 404
    /\ nfetch[Client] = 1
    /\ prev.nfetch = 1

\* C6: a /weather/latest request that misses the cache and is handed an empty
\* document or a mapping with an error indicator ends with status 404 and
\* writes nothing under "latest".
C6_LatestNotFound ==
    \A p \in Workers :
        (req[p].ep = "latest" /\ pc[p] = "done" /\ EmptyOrError(data[p])) =>
            /\ resp[p].status = 404
            /\ stored[p] = None

NonEmpty(d) == d \in {DocA, DocB, DocError, JArr(1)}

\* C8: a /weather/latest or /weather/{sol} request that fetched a non-empty
\* document, a mapping or an array, ends with status 200, 404 or 502.
C8_NormalizeNeverFails ==
    \A p \in Workers :
        (Normalized(p) /\ pc[p] = "done" /\ NonEmpty(data[p])) =>
            resp[p].status \in {200, 404, 502}

\* C9: an entry leaves the cache only when its age exceeds TTL: no
\* _get_cached removes an entry, written by a concurrent _set_cached, whose
\* age is at most TTL.
C9_GetDeletesOnlyExpired ==
    [][\A k \in Keys :
          (CACHE[k] # None /\ CACHE'[k] = None) => now - CACHE[k].t > TTL
      ]_vars

HealthCheck(p) == req[p].ep \in {"ping", "healthz"}

\* C10: a handler invocation calls upstream at most once: not at all for a
\* health check or when its cache lookup hits, and exactly once when the
\* lookup misses (and for every /maas request, which has no lookup),
\* whether the fetch fails or returns an empty, an error or a good document.
C10_SingleAttempt ==
    \A p \in Workers :
        /\ nfetch[p] <= 1
        /\ pc[p] = "done" =>
               /\ HealthCheck(p) => nfetch[p] = 0
               /\ (Normalized(p) /\ cached[p] # None) => nfetch[p] = 0
               /\ (Normalized(p) /\ cached[p] = None) => nfetch[p] = 1
               /\ req[p].ep = "maas" => nfetch[p] = 1
               /\ nfetch[p] = 1 <=> data[p] \in UpstreamResults
        /\ pc[p] = "fetch" => nfetch[p] = 1

\* One request answered from the cache without a fetch, next to one whose
\* single fetch failed.
C10_Witness ==
    \E p, q \in Workers :
        /\ pc[p] = "done" /\ Normalized(p) /\ cached[p] # None
        /\ nfetch[p] = 0
        /\ pc[q] = "done" /\ Normalized(q) /\ data[q] = RequestException
        /\ nfetch[q] = 1

\* The request of worker p is not answered yet.
Pending(p) == pc[p] \in {"get_read", "get_check", "get_pop", "fetch", "set"}

\* The next step of a pending request.
Proceed(p) ==
    \/ GetCachedRead(p)
    \/ GetCachedCheck(p)
    \/ GetCachedPop(p)
    \/ \E r \in UpstreamResults : FetchMaasReturn(p, r)
    \/ SetCached(p)

\* C11: a step of a request changes no cache entry but the one under its own
\* key, and its lookup reads that entry; a pending request can always take
\* its next step, whatever the other worker does: one waiting in an
\* upstream fetch holds up nobody, and two requests for one key that both
\* missed are both in flight and both go on.
C11_KeyIndependence ==
    /\ [](\A p \in Workers : Pending(p) => ENABLED Proceed(p))
    /\ [][\A p \in Workers :
             pc'[p] # pc[p] =>
                 /\ \A k \in Keys : k # key'[p] => CACHE'[k] = CACHE[k]
                 /\ pc[p] = "get_read" => row'[p] = CACHE[key[p]]
                 /\ \A q \in Workers \ {p} :
                        /\ pc'[q] = pc[q]
                        /\ row'[q] = row[q]
                        /\ resp'[q] = resp[q]
         ]_vars

\* Two requests for "sol:5" that both missed, both waiting for upstream.
C11_Witness ==
    /\ \A p \in Workers :
          /\ req[p] = Request("by_sol", 5)
          /\ pc[p] = "fetch"
          /\ row[p] = None
          /\ nfetch[p] = 1
    /\ CACHE[SolKey(5)] = None

\* The sol values the path rule is tried on, beside those requested.
PathSols == -1..7

\* C12: every fetch of /weather/latest asks for "/", every fetch of
\* /weather/{sol} for "/<sol>", and every fetch of /maas for "/" when sol is
\* 0 (the default) and for "/<sol>" when sol > 0.
C12_PathSelection ==
    /\ \A p \in Workers :
          nfetch[p] = 1 =>
              /\ req[p].ep = "latest" => path[p] = <<"/">>
              /\ req[p].ep = "by_sol" => path[p] = <<"/", req[p].sol>>
              /\ (req[p].ep = "maas" /\ req[p].sol = 0) => path[p] = <<"/">>
              /\ (req[p].ep = "maas" /\ req[p].sol > 0) =>
                     path[p] = <<"/", req[p].sol>>
    /\ \A sol \in PathSols :
          /\ PathOf(Request("by_sol", sol)) = <<"/", sol>>
          /\ sol > 0 => PathOf(Request("maas", sol)) = <<"/", sol>>
          /\ sol = 0 => PathOf(Request("maas", sol)) = PathOf(Request("latest", 0))

\* /maas?sol=5 waiting for "/5" while /maas waits for "/".
C12_Witness ==
    \E p, q \in Workers :
        /\ req[p] = Request("maas", 5) /\ pc[p] = "fetch"
        /\ path[p] = <<"/", 5>>
        /\ req[q] = Request("maas", 0) /\ pc[q] = "fetch"
        /\ path[q] = <<"/">>

\* An empty document.
EmptyDoc(d) == d \in {EmptyMap, JArr(0)}

\* C13: a /maas request handed an empty document ends with status 502, not
\* 404; handed any non-empty document, the error mapping included, it
\* responds 200 with that document unchanged, while /weather/{sol} answers
\* the error mapping with 404.
C13_MaasErrorPolicy ==
    \A p \in Workers :
        pc[p] = "done" =>
            /\ (req[p].ep = "maas" /\ EmptyDoc(data[p])) =>
                   /\ resp[p].status = 502
                   /\ DOMAIN resp[p].body = {"detail"}
            /\ (req[p].ep = "maas" /\ NonEmpty(data[p])) =>
                   resp[p] = Response(200, data[p])
            /\ (req[p].ep = "by_sol" /\ data[p] = DocError) =>
                   resp[p].status = 404

\* {"error": "no data"} passed through by /maas?sol=5 and answered with 404
\* by /weather/5.
C13_Witness ==
    \E p, q \in Workers :
        /\ req[p] = Request("maas", 5) /\ pc[p] = "done"
        /\ data[p] = DocError /\ resp[p] = Response(200, DocError)
        /\ req[q] = Request("by_sol", 5) /\ pc[q] = "done"
        /\ data[q] = DocError /\ resp[q].status = 404

\* The output field computed from the input key k.
NumericOutput(o, k) ==
    CASE k = "min_temp" -> o.temperature_c.min
      [] k = "max_temp" -> o.temperature_c.max
      [] k = "min_gts_temp" -> o.temperature_c.min_gts
      [] k = "max_gts_temp" -> o.temperature_c.max_gts
      [] k = "pressure" -> o.pressure_pa

\* The input is a number or a numeric string.
IsNumeric(x) == x \in {JStr(<<"-", "7", "0", ".", "5">>), JNum(850, 1)}

\* The number it stands for, as a fraction: -70.5 = -141/2, and 850.
NumberOf(x) == IF x = JNum(850, 1) THEN <<850, 1>> ELSE <<-141, 2>>

\* y is the number n[1]/n[2].
IsNumber(y, n) == y.ty = "num" /\ y.num * n[2] = n[1] * y.den

\* The input is missing, null, a non-numeric string, or neither a number
\* nor a string.
NotNumeric(x) ==
    \/ x \in {Missing, None, JStr(<<"a", "b", "c">>)}
    \/ x.ty \in {"bool", "list"}

\* C14: each numeric output field is the parsed number when its input field
\* is a number or a numeric string, and absent when its input field is
\* missing, null, a non-numeric string or of another type, whatever the
\* other fields hold; and the output carries the constant source tag.
C14_NumericCoercion ==
    pc[Client] = "normalized" =>
        /\ out[Client].source = SourceTag
        /\ \A k \in NumericFields :
              LET x == data[Client].fields[k]
                  y == NumericOutput(out[Client], k)
              IN  /\ IsNumeric(x) => IsNumber(y, NumberOf(x))
                  /\ NotNumeric(x) => y = None

\* C15: a worker free to take a request can always take /ping and /healthz,
\* whatever the cache holds and whatever the other worker is waiting for;
\* the step that handles one answers {"ok": true} with status 200, fetches
\* nothing and leaves the cache unchanged.
C15_HealthChecks ==
    /\ [](\A p \in Workers :
            /\ (Idle(p) /\ calls < MaxCalls) =>
                   ENABLED ping(p) /\ ENABLED healthz(p)
            /\ (HealthCheck(p) /\ pc[p] = "done") =>
                   resp[p] = Response(200, OkBody) /\ nfetch[p] = 0)
    /\ [][\A p \in Workers :
            ( /\ calls' # calls
              /\ req'[p].ep \in {"ping", "healthz"}
              /\ \A q \in Workers \ {p} : pc'[q] = pc[q] /\ req'[q] = req[q] )
            => /\ CACHE' = CACHE
               /\ pc'[p] = "done"
               /\ nfetch'[p] = 0
               /\ resp'[p] = Response(200, OkBody)
         ]_vars

\* /healthz answered while the other worker waits for upstream and the cache
\* holds an expired entry.
C15_Witness ==
    \E p, q \in Workers :
        /\ req[p].ep = "healthz" /\ pc[p] = "done"
        /\ resp[p] = Response(200, OkBody)
        /\ pc[q] = "fetch"
        /\ CACHE[LatestKey] # None /\ Expired(CACHE[LatestKey], now)

\* Every key but k holds after the step what it held before.
OthersKept(k) == \A j \in Keys \ {k} : CACHE'[j] = CACHE[j]

\* C16: a step of _get_cached that finds no entry, or judges the entry it
\* read to be of age at most TTL, ends the lookup and leaves the whole cache
\* as it was, timestamps included; judging the entry expired leads to the
\* one step that removes the entry under that key and no other; the step of
\* _set_cached makes the entry under its key the given value stamped with
\* the current time and leaves every other entry as it was.
C16_CacheFrames ==
    [][\A p \in Workers :
          pc'[p] # pc[p] =>
              /\ pc[p] = "get_read" =>
                    /\ CACHE' = CACHE
                    /\ CACHE[key[p]] = None => pc'[p] \notin {"get_check", "get_pop"}
              /\ pc[p] = "get_check" =>
                    /\ CACHE' = CACHE
                    /\ now - row[p].t <= TTL => pc'[p] # "get_pop"
                    /\ now - row[p].t > TTL => pc'[p] = "get_pop"
              /\ pc[p] = "get_pop" =>
                    /\ CACHE'[key[p]] = None
                    /\ OthersKept(key[p])
                    /\ tchk[p] - row[p].t > TTL
              /\ pc[p] = "set" =>
                    /\ CACHE'[key[p]] = [t |-> now, v |-> out[p]]
                    /\ OthersKept(key[p])
      ]_vars

\* /weather/5 has removed the expired entry under "sol:5" while the entry
\* under "latest" stays.
C16_Witness ==
    \E p \in Workers :
        /\ req[p] = Request("by_sol", 5) /\ pc[p] = "fetch"
        /\ row[p] # None /\ tchk[p] - row[p].t > TTL
        /\ CACHE[SolKey(5)] = None
        /\ CACHE[LatestKey] # None

\* What the Normalizer makes of the mappings upstream can answer.
NormalizerOutputs == {_normalize_maas(d) : d \in {x \in Documents : x.kind = "map"}}

\* C17: every cached value is an output of _normalize_maas and carries the
\* source tag; an entry appears or changes under a key only by the set of a
\* /weather/latest request (key "latest") or of a /weather/{sol} request
\* (key "sol:<sol>"), never by /maas or a health check; and a 200 answer of
\* a normalized endpoint is such an output, not a document as fetched.
C17_CacheContent ==
    /\ [](/\ \A k \in Keys :
                CACHE[k] # None =>
                    /\ CACHE[k].v \in NormalizerOutputs
                    /\ CACHE[k].v.source = SourceTag
          /\ \A p \in Workers :
                (Normalized(p) /\ pc[p] = "done" /\ resp[p].status = 200) =>
                    /\ resp[p].body \in NormalizerOutputs
                    /\ resp[p].body \notin Documents)
    /\ [][\A k \in Keys :
            (CACHE'[k] # CACHE[k] /\ CACHE'[k] # None) =>
                \E p \in Workers :
                    /\ pc[p] = "set" /\ key[p] = k
                    /\ \/ req[p].ep = "latest" /\ k = LatestKey
                       \/ req[p].ep = "by_sol" /\ k = SolKey(req[p].sol)
         ]_vars

\* /maas?sol=5 has returned a document as fetched, and /weather/5 the
\* normalized record it cached.
C17_Witness ==
    \E p, q \in Workers :
        /\ req[p] = Request("maas", 5) /\ pc[p] = "done"
        /\ resp[p] = Response(200, DocA)
        /\ req[q] = Request("by_sol", 5) /\ pc[q] = "done"
        /\ resp[q] = Response(200, _normalize_maas(DocA))
        /\ CACHE[SolKey(5)] # None
        /\ CACHE[SolKey(5)].v = _normalize_maas(DocA)

\* p and q have both missed on the same key, fetched a document that
\* normalizes, and finished.
BothWrote(p, q) ==
    /\ p # q
    /\ Normalized(p) /\ Normalized(q) /\ key[p] = key[q]
    /\ pc[p] = "done" /\ pc[q] = "done"
    /\ cached[p] = None /\ cached[q] = None
    /\ resp[p].status = 200 /\ resp[q].status = 200

\* C18: when two requests for one key both miss and both fetch a document
\* that normalizes, each answers the normalized form of the document it
\* fetched itself; the step of _set_cached puts the whole row, value and
\* timestamp, of its own request under the key, over whatever was there;
\* nothing but a set or an expired-entry deletion on that key changes the
\* entry; so once both have finished the entry is the whole row of one of
\* them, the one whose set ran last.
C18_LastWriterWins ==
    /\ [](\A p, q \in Workers :
            BothWrote(p, q) =>
                /\ resp[p] = Response(200, _normalize_maas(data[p]))
                /\ CACHE[key[p]] \in {stored[p], stored[q]}
                /\ stored[p] # None /\ stored[p].v = _normalize_maas(data[p]))
    /\ [][\A p \in Workers :
            (pc[p] = "set" /\ pc'[p] # pc[p]) =>
                /\ stored'[p] = [t |-> now, v |-> _normalize_maas(data[p])]
                /\ CACHE'[key[p]] = stored'[p]
         ]_vars
    /\ [][\A k \in Keys :
            CACHE'[k] # CACHE[k] =>
                \E p \in Workers :
                    key[p] = k /\ pc[p] \in {"set", "get_pop"} /\ pc'[p] # pc[p]
         ]_vars

\* Two /weather/5 requests both found no entry, fetched different documents
\* and set at different instants; the entry is the row of the later set.
C18_Witness ==
    \E p, q \in Workers :
        /\ BothWrote(p, q)
        /\ key[p] = SolKey(5)
        /\ row[p] = None /\ row[q] = None
        /\ data[p] = DocA /\ data[q] = DocB
        /\ stored[p].t < stored[q].t
        /\ CACHE[SolKey(5)] = stored[q]

=============================================================================
